---- MODULE Spec2Model ----
(***************************************************************************)
(* Model of crates/lib/src/transaction/fees.rs:                            *)
(*   estimate_transaction_fee, get_associated_token_account_creation_fees  *)
(*   and calculate_token_value_in_lamports.                                *)
(*                                                                         *)
(* One call is followed from its entry to its outcome.  Every await of the *)
(* code is one action; the answers of the RPC node and of the price oracle *)
(* are drawn nondeterministically when the call is made.  The instruction  *)
(* list of the transaction is read-only input: each element is drawn when  *)
(* the iterator of the scan yields it.                                     *)
(*                                                                         *)
(* u64 is modelled with a reduced width (U64_MAX); f64 is modelled by the  *)
(* classes finite / inf / nan with exact non-negative rationals for the    *)
(* finite values (rounding error of the mantissa is not modelled).         *)
(***************************************************************************)
EXTENDS Integers, Sequences, FiniteSets

\* ---------------------------------------------------------------- bounds
MaxInstr == 2
NumKeys == 3
MaxStats == 2
U64_MAX == 16777215

\* ------------------------------------------------------ program constants
\* spl_associated_token_account::id()
AtaProgramId == 0
\* TokenAccount::LEN
ATA_ACCOUNT_SIZE == 165
\* Rent::default()
ACCOUNT_STORAGE_OVERHEAD == 128
DEFAULT_LAMPORTS_PER_BYTE_YEAR == 3480
DEFAULT_EXEMPTION_THRESHOLD == 2
\* operand positions of the ATA-creation instruction
AtaPos == 1
OwnerPos == 2
MintPos == 3
\* Mint::LEN
MINT_LEN == 82
LAMPORTS_PER_SOL == 1000000000
\* PriceOracle::new(3, Duration::from_secs(1))
ORACLE_MAX_RETRIES == 3
ORACLE_RETRY_SECS == 1

\* ------------------------------------------------------------ input sets
Keys == 0 .. (NumKeys - 1)
\* u8 indices an instruction may carry; NumKeys - 1 is out of range for
\* every key list shorter than NumKeys
Indices == 0 .. (NumKeys - 1)
\* account-key lists: the first n keys of the key space, rotated by r
AccountKeyLists ==
  { [j \in 1 .. n |-> (j - 1 + r) % NumKeys] : n \in 1 .. NumKeys, r \in {0, 1} }
\* operand lists of every length up to the four the ATA layout needs
OperandLists == UNION { [1 .. n -> Indices] : n \in 0 .. (MintPos + 1) }
Instructions == [program_id_index : Indices, accounts : OperandLists]
NoInstruction == [program_id_index |-> -1, accounts |-> <<>>]
FeeValues == {0, 5000, U64_MAX}
PrioValues == {1, 7, U64_MAX}
PrioLists == UNION { [1 .. n -> PrioValues] : n \in 0 .. MaxStats }
LookupOutcomes == {"Ok", "AccountNotFound", "Other"}
Amounts == {0, 1, 1000000}
Decimals == {6, 7}
TokenPrices == {0, 1, 2}
SolPrices == {0, 1, 150}
\* mint account data: its length, the tag of the mint-authority option, the
\* is_initialized byte and the decimals byte
MintAccounts ==
  [len : {MINT_LEN, ATA_ACCOUNT_SIZE}, tag : 0 .. 2, init : 0 .. 2, decimals : Decimals]

VARIABLES
  pc,                   \* position of the call
  overflow_checks,      \* build profile: TRUE panics on overflow, FALSE wraps
  account_keys,         \* transaction.message.account_keys
  num_instructions,     \* transaction.message.instructions.len()
  next_index,           \* number of instructions the iterator has yielded
  instruction,          \* loop variable of the scan
  ata_targets,          \* yielded instructions whose program is the ATA program
  ata_mismatches,       \* of those, the ones whose stated address differs
                        \* from the derived one
  ata,                  \* stated ATA address of the current instruction
  expected_ata,         \* address derived from its owner and mint
  ata_count,
  base_fee,
  account_creation_fee,
  priority_stats,
  priority_fee,
  rpc_log,              \* RPC calls issued, in order, with their outcome
  amount,
  mint,
  mint_account,
  mint_data,
  token_price,
  sol_price,
  oracle,               \* retry policy of the PriceOracle, once constructed
  oracle_log,           \* price lookups issued, in order, with their outcome
  result                \* outcome of the call

vars == << pc, overflow_checks, account_keys, num_instructions, next_index,
           instruction, ata_targets, ata_mismatches, ata, expected_ata, ata_count, base_fee,
           account_creation_fee, priority_stats, priority_fee, rpc_log,
           amount, mint, mint_account, mint_data, token_price, sol_price,
           oracle, oracle_log, result >>

estimVars == << account_keys, num_instructions, next_index, instruction,
                ata_targets, ata_mismatches, ata, expected_ata, ata_count,
                base_fee, account_creation_fee, priority_stats, priority_fee >>
convVars == << amount, mint, mint_account, mint_data, token_price, sol_price,
               oracle, oracle_log >>

\* ------------------------------------------------------------- outcomes
NoResult == [kind |-> "None", value |-> 0, error |-> ""]
Ok(v) == [kind |-> "Ok", value |-> v, error |-> ""]
Err(e) == [kind |-> "Err", value |-> 0, error |-> e]
Panic(cause) == [kind |-> "Panic", value |-> 0, error |-> cause]

RpcCall(name, outcome) == [call |-> name, outcome |-> outcome]
OracleCall(symbol, outcome) == [symbol |-> symbol, outcome |-> outcome]

\* ------------------------------------------------------- u64 arithmetic
\* a + b and a * b on u64: an overflow panics when overflow checks are
\* compiled in and wraps otherwise
Overflows(x) == x > U64_MAX
Wrap(x) == x % (U64_MAX + 1)

\* account_keys[idx as usize]
InRange(idx) == idx < Len(account_keys)
KeyAt(idx) == account_keys[idx + 1]

\* instruction.accounts[pos]
HasOperand(ins, pos) == pos < Len(ins.accounts)
Operand(ins, pos) == ins.accounts[pos + 1]

\* get_associated_token_address(&owner, &mint): a deterministic function of
\* both keys
get_associated_token_address(owner, mintKey) == (2 * owner + mintKey + 1) % NumKeys

\* a scan that takes every instruction for an ATA-creation instruction
IsAtaProgram_Any(program_id) == TRUE

\* program_id != spl_associated_token_account::id() is false
IsAtaProgram(program_id) == program_id = AtaProgramId

\* a scan that does not compare the stated address with the derived one
AtaMatches_Always(stated, expected) == TRUE

\* ata == expected_ata
AtaMatches(stated, expected) == stated = expected

\* a scan that counts only the "account not found" failure
LookupIsErr_NotFoundOnly(outcome) == outcome = "AccountNotFound"

\* rpc_client.get_account(&ata).await.is_err()
LookupIsErr(outcome) == outcome # "Ok"

\* Rent::default().minimum_balance(ATA_ACCOUNT_SIZE)
minimum_balance(data_len) ==
  ((ACCOUNT_STORAGE_OVERHEAD + data_len) * DEFAULT_LAMPORTS_PER_BYTE_YEAR)
    * DEFAULT_EXEMPTION_THRESHOLD

RECURSIVE MaxOf(_)
MaxOf(s) ==
  IF Len(s) = 0 THEN -1
  ELSE LET m == MaxOf(Tail(s)) IN IF Head(s) > m THEN Head(s) ELSE m

RECURSIVE MinOf(_)
MinOf(s) ==
  IF Len(s) = 1 THEN Head(s)
  ELSE LET m == MinOf(Tail(s)) IN IF Head(s) < m THEN Head(s) ELSE m

\* an estimator that takes the minimum of the recent fees
PriorityFee_Min(stats) == IF Len(stats) = 0 THEN 0 ELSE MinOf(stats)

\* priority_stats.iter().map(|fee| fee.prioritization_fee).max().unwrap_or(0)
PriorityFee(stats) == IF Len(stats) = 0 THEN 0 ELSE MaxOf(stats)

\* ---------------------------------------------------------------- Init
Init ==
  /\ pc = "idle"
  /\ overflow_checks \in BOOLEAN
  /\ account_keys = <<>>
  /\ num_instructions = 0
  /\ next_index = 0
  /\ instruction = NoInstruction
  /\ ata_targets = 0
  /\ ata_mismatches = 0
  /\ ata = 0
  /\ expected_ata = 0
  /\ ata_count = 0
  /\ base_fee = 0
  /\ account_creation_fee = 0
  /\ priority_stats = <<>>
  /\ priority_fee = 0
  /\ rpc_log = <<>>
  /\ amount = 0
  /\ mint = 0
  /\ mint_account = [len |-> 0, tag |-> 0, init |-> 0, decimals |-> 0]
  /\ mint_data = [decimals |-> 0]
  /\ token_price = 0
  /\ sol_price = 0
  /\ oracle = [max_retries |-> 0, retry_secs |-> 0]
  /\ oracle_log = <<>>
  /\ result = NoResult

\* ------------------------------------------- estimate_transaction_fee
\* entry: the caller passes a transaction
CallEstimate ==
  /\ pc = "idle"
  /\ \E keys \in AccountKeyLists, n \in 0 .. MaxInstr :
        /\ account_keys' = keys
        /\ num_instructions' = n
  /\ pc' = "base_fee"
  /\ UNCHANGED << overflow_checks, next_index, instruction, ata_targets,
                  ata_mismatches, ata, expected_ata, ata_count, base_fee, account_creation_fee,
                  priority_stats, priority_fee, rpc_log, result >>
  /\ UNCHANGED convVars

\* get_fee_for_message(..).await succeeded
BaseFeeOk ==
  /\ pc = "base_fee"
  /\ \E v \in FeeValues : base_fee' = v
  /\ rpc_log' = Append(rpc_log, RpcCall("get_fee_for_message", "Ok"))
  /\ pc' = "scan"
  /\ UNCHANGED << overflow_checks, account_keys, num_instructions, next_index,
                  instruction, ata_targets, ata_mismatches, ata, expected_ata, ata_count,
                  account_creation_fee, priority_stats, priority_fee, result >>
  /\ UNCHANGED convVars

\* an estimator that carries on after a failed base-fee query
BaseFeeErr_Continues ==
  /\ pc = "base_fee"
  /\ rpc_log' = Append(rpc_log, RpcCall("get_fee_for_message", "Other"))
  /\ pc' = "scan"
  /\ UNCHANGED << overflow_checks, result >>
  /\ UNCHANGED estimVars
  /\ UNCHANGED convVars

\* get_fee_for_message(..).await failed: map_err(RpcError)?
BaseFeeErr ==
  /\ pc = "base_fee"
  /\ rpc_log' = Append(rpc_log, RpcCall("get_fee_for_message", "Other"))
  /\ result' = Err("RpcError")
  /\ pc' = "estimate_done"
  /\ UNCHANGED << overflow_checks >>
  /\ UNCHANGED estimVars
  /\ UNCHANGED convVars

\* for instruction in &transaction.message.instructions: the next element
ScanNext ==
  /\ pc = "scan"
  /\ next_index < num_instructions
  /\ \E ins \in Instructions : instruction' = ins
  /\ next_index' = next_index + 1
  /\ pc' = "program_id"
  /\ UNCHANGED << overflow_checks, account_keys, num_instructions, ata_targets,
                  ata_mismatches, ata, expected_ata, ata_count, base_fee, account_creation_fee,
                  priority_stats, priority_fee, rpc_log, result >>
  /\ UNCHANGED convVars

\* account_keys[program_id_index] and the comparison with the ATA program;
\* `continue` ends the iteration and its variables go out of scope
ScanProgramId ==
  /\ pc = "program_id"
  /\ IF ~InRange(instruction.program_id_index)
       THEN /\ result' = Panic("index out of bounds")
            /\ pc' = "estimate_done"
            /\ UNCHANGED << instruction, ata_targets >>
       ELSE IF ~IsAtaProgram(KeyAt(instruction.program_id_index))
         THEN /\ pc' = "scan"
              /\ instruction' = NoInstruction
              /\ UNCHANGED << ata_targets, result >>
         ELSE /\ pc' = "operands"
              /\ ata_targets' =
                   IF KeyAt(instruction.program_id_index) = AtaProgramId
                     THEN ata_targets + 1 ELSE ata_targets
              /\ UNCHANGED << instruction, result >>
  /\ UNCHANGED << overflow_checks, account_keys, num_instructions, next_index,
                  ata_mismatches, ata, expected_ata, ata_count, base_fee,
                  account_creation_fee, priority_stats, priority_fee, rpc_log >>
  /\ UNCHANGED convVars

\* every operand position the scan reads exists and indexes a key
OperandsValid(ins) ==
  \A pos \in {AtaPos, OwnerPos, MintPos} :
     HasOperand(ins, pos) /\ InRange(Operand(ins, pos))

\* the three positional operands, the derived address, and the left side of
\* &&: a mismatch ends the iteration without a lookup
ScanOperands ==
  /\ pc = "operands"
  /\ IF ~OperandsValid(instruction)
       THEN /\ result' = Panic("index out of bounds")
            /\ pc' = "estimate_done"
            /\ UNCHANGED << instruction, ata_mismatches, ata, expected_ata >>
       ELSE LET a == KeyAt(Operand(instruction, AtaPos))
                owner == KeyAt(Operand(instruction, OwnerPos))
                mintKey == KeyAt(Operand(instruction, MintPos))
                e == get_associated_token_address(owner, mintKey)
            IN /\ ata_mismatches' = IF a = e THEN ata_mismatches ELSE ata_mismatches + 1
               /\ IF AtaMatches(a, e)
                    THEN /\ pc' = "lookup"
                         /\ ata' = a
                         /\ expected_ata' = e
                         /\ UNCHANGED instruction
                    ELSE /\ pc' = "scan"
                         /\ instruction' = NoInstruction
                         /\ UNCHANGED << ata, expected_ata >>
               /\ UNCHANGED result
  /\ UNCHANGED << overflow_checks, account_keys, num_instructions, next_index,
                  ata_targets, ata_count, base_fee, account_creation_fee,
                  priority_stats, priority_fee, rpc_log >>
  /\ UNCHANGED convVars

\* rpc_client.get_account(&ata).await.is_err() and ata_count += 1; the
\* iteration ends
ScanLookup ==
  /\ pc = "lookup"
  /\ \E outcome \in LookupOutcomes :
        /\ rpc_log' = Append(rpc_log, RpcCall("get_account", outcome))
        /\ ata_count' = IF LookupIsErr(outcome) THEN ata_count + 1 ELSE ata_count
  /\ pc' = "scan"
  /\ instruction' = NoInstruction
  /\ ata' = 0
  /\ expected_ata' = 0
  /\ UNCHANGED << overflow_checks, account_keys, num_instructions, next_index,
                  ata_targets, ata_mismatches, base_fee, account_creation_fee,
                  priority_stats, priority_fee, result >>
  /\ UNCHANGED convVars

\* after the loop: Ok(exempt_min * ata_count)
ScanRent ==
  /\ pc = "scan"
  /\ next_index = num_instructions
  /\ LET product == minimum_balance(ATA_ACCOUNT_SIZE) * ata_count
     IN IF Overflows(product) /\ overflow_checks
          THEN /\ result' = Panic("overflow")
               /\ pc' = "estimate_done"
               /\ UNCHANGED account_creation_fee
          ELSE /\ account_creation_fee' = Wrap(product)
               /\ pc' = "priority"
               /\ UNCHANGED result
  /\ UNCHANGED << overflow_checks, account_keys, num_instructions, next_index,
                  instruction, ata_targets, ata_mismatches, ata, expected_ata,
                  ata_count, base_fee, priority_stats, priority_fee, rpc_log >>
  /\ UNCHANGED convVars

\* get_recent_prioritization_fees(&[]).await succeeded, and the maximum
PriorityOk ==
  /\ pc = "priority"
  /\ \E stats \in PrioLists :
        /\ priority_stats' = stats
        /\ priority_fee' = PriorityFee(stats)
  /\ rpc_log' = Append(rpc_log, RpcCall("get_recent_prioritization_fees", "Ok"))
  /\ pc' = "total"
  /\ UNCHANGED << overflow_checks, account_keys, num_instructions, next_index,
                  instruction, ata_targets, ata_mismatches, ata, expected_ata, ata_count,
                  base_fee, account_creation_fee, result >>
  /\ UNCHANGED convVars

\* get_recent_prioritization_fees(&[]).await failed: map_err(RpcError)?
PriorityErr ==
  /\ pc = "priority"
  /\ rpc_log' = Append(rpc_log, RpcCall("get_recent_prioritization_fees", "Other"))
  /\ result' = Err("RpcError")
  /\ pc' = "estimate_done"
  /\ UNCHANGED << overflow_checks >>
  /\ UNCHANGED estimVars
  /\ UNCHANGED convVars

\* an estimator that leaves the account-creation fee out of the total
TotalFee_DropsCreation(b, p, a) ==
  IF Overflows(b + p)
    THEN IF overflow_checks THEN Panic("overflow") ELSE Ok(Wrap(b + p))
    ELSE Ok(b + p)

\* base_fee + priority_fee + account_creation_fee, left to right
TotalFee(b, p, a) ==
  IF Overflows(b + p)
    THEN IF overflow_checks THEN Panic("overflow")
         ELSE Ok(Wrap(Wrap(b + p) + a))
    ELSE IF Overflows(b + p + a)
      THEN IF overflow_checks THEN Panic("overflow") ELSE Ok(Wrap(b + p + a))
      ELSE Ok(b + p + a)

Total ==
  /\ pc = "total"
  /\ result' = TotalFee(base_fee, priority_fee, account_creation_fee)
  /\ pc' = "estimate_done"
  /\ UNCHANGED << overflow_checks, rpc_log >>
  /\ UNCHANGED estimVars
  /\ UNCHANGED convVars

\* ------------------------------------------------------- f64 arithmetic
F64(n) == [class |-> "finite", num |-> n, den |-> 1]
F64Inf == [class |-> "inf", num |-> 0, den |-> 1]
F64NaN == [class |-> "nan", num |-> 0, den |-> 1]

RECURSIVE GCD(_, _)
GCD(a, b) == IF b = 0 THEN a ELSE GCD(b, a % b)

\* x * y
F64Mul(x, y) ==
  IF x.class = "nan" \/ y.class = "nan" THEN F64NaN
  ELSE IF x.class = "inf"
    THEN IF y.class = "finite" /\ y.num = 0 THEN F64NaN ELSE F64Inf
  ELSE IF y.class = "inf"
    THEN IF x.num = 0 THEN F64NaN ELSE F64Inf
  ELSE IF x.num = 0 \/ y.num = 0 THEN F64(0)
  ELSE LET g1 == GCD(x.num, y.den)
           g2 == GCD(y.num, x.den)
       IN [class |-> "finite",
           num |-> (x.num \div g1) * (y.num \div g2),
           den |-> (x.den \div g2) * (y.den \div g1)]

\* x / y: a finite non-zero value divided by zero is inf, 0 / 0 is nan
F64Div(x, y) ==
  IF x.class = "nan" \/ y.class = "nan" THEN F64NaN
  ELSE IF x.class = "inf"
    THEN IF y.class = "inf" THEN F64NaN ELSE F64Inf
  ELSE IF y.class = "inf" THEN F64(0)
  ELSE IF y.num = 0
    THEN IF x.num = 0 THEN F64NaN ELSE F64Inf
  ELSE F64Mul(x, [class |-> "finite", num |-> y.den, den |-> y.num])

\* x.floor()
F64Floor(x) == IF x.class = "finite" THEN F64(x.num \div x.den) ELSE x

\* x as u64: the cast saturates, and nan becomes 0
F64ToU64(x) ==
  IF x.class = "nan" THEN 0
  ELSE IF x.class = "inf" THEN U64_MAX
  ELSE LET q == x.num \div x.den IN IF q > U64_MAX THEN U64_MAX ELSE q

\* 10f64.powi(n)
RECURSIVE Pow10(_)
Pow10(n) == IF n = 0 THEN 1 ELSE 10 * Pow10(n - 1)

\* Mint::unpack(&data): length, option tag, is_initialized byte, then the
\* initialised check
MintUnpack(data) ==
  IF data.len # MINT_LEN THEN "InvalidAccountData"
  ELSE IF data.tag \notin {0, 1} THEN "InvalidAccountData"
  ELSE IF data.init \notin {0, 1} THEN "InvalidAccountData"
  ELSE IF data.init = 0 THEN "UninitializedAccount"
  ELSE "Ok"

\* the numeric conversion of lines 109-118
Lamports(amt, decimals, tokenPrice, solPrice) ==
  LET token_amount == F64Div(F64(amt), F64(Pow10(decimals)))
      usd_value == F64Mul(token_amount, F64(tokenPrice))
      sol_amount == F64Div(usd_value, F64(solPrice))
  IN F64ToU64(F64Floor(F64Mul(sol_amount, F64(LAMPORTS_PER_SOL))))

\* --------------------------------- calculate_token_value_in_lamports
\* entry: the caller passes an amount and a mint
CallConvert ==
  /\ pc = "idle"
  /\ \E a \in Amounts, m \in Keys :
        /\ amount' = a
        /\ mint' = m
  /\ pc' = "mint_fetch"
  /\ UNCHANGED << overflow_checks, rpc_log, result, mint_account, mint_data,
                  token_price, sol_price, oracle, oracle_log >>
  /\ UNCHANGED estimVars

\* rpc_client.get_account(mint).await succeeded
MintFetchOk ==
  /\ pc = "mint_fetch"
  /\ \E data \in MintAccounts : mint_account' = data
  /\ rpc_log' = Append(rpc_log, RpcCall("get_account", "Ok"))
  /\ pc' = "mint_unpack"
  /\ UNCHANGED << overflow_checks, result, amount, mint, mint_data,
                  token_price, sol_price, oracle, oracle_log >>
  /\ UNCHANGED estimVars

\* the error variant a failed mint fetch is mapped to
MintFetchError == "RpcError"

\* rpc_client.get_account(mint).await failed: map_err(RpcError)?
MintFetchErr ==
  /\ pc = "mint_fetch"
  /\ \E outcome \in LookupOutcomes \ {"Ok"} :
        rpc_log' = Append(rpc_log, RpcCall("get_account", outcome))
  /\ result' = Err(MintFetchError)
  /\ pc' = "convert_done"
  /\ UNCHANGED << overflow_checks >>
  /\ UNCHANGED convVars
  /\ UNCHANGED estimVars

\* a converter that reports a failed decode as an RPC failure
MintDecodeError_Rpc == "RpcError"

\* the error variant a failed decode is mapped to
MintDecodeError == "InvalidTransaction"

\* Mint::unpack(..).map_err(InvalidTransaction)?, then PriceOracle::new(3, 1 s)
UnpackMint ==
  /\ pc = "mint_unpack"
  /\ IF MintUnpack(mint_account) = "Ok"
       THEN /\ mint_data' = [decimals |-> mint_account.decimals]
            /\ oracle' = [max_retries |-> ORACLE_MAX_RETRIES,
                          retry_secs |-> ORACLE_RETRY_SECS]
            /\ pc' = "token_price"
            /\ UNCHANGED result
       ELSE /\ result' = Err(MintDecodeError)
            /\ pc' = "convert_done"
            /\ UNCHANGED << mint_data, oracle >>
  /\ UNCHANGED << overflow_checks, rpc_log, amount, mint, mint_account,
                  token_price, sol_price, oracle_log >>
  /\ UNCHANGED estimVars

\* oracle.get_token_price(&mint.to_string()).await succeeded
TokenPriceOk ==
  /\ pc = "token_price"
  /\ \E p \in TokenPrices : token_price' = p
  /\ oracle_log' = Append(oracle_log, OracleCall("mint", "Ok"))
  /\ pc' = "sol_price"
  /\ UNCHANGED << overflow_checks, rpc_log, result, amount, mint, mint_account,
                  mint_data, sol_price, oracle >>
  /\ UNCHANGED estimVars

\* oracle.get_token_price(&mint.to_string()).await failed: map_err(RpcError)?
TokenPriceErr ==
  /\ pc = "token_price"
  /\ oracle_log' = Append(oracle_log, OracleCall("mint", "Err"))
  /\ result' = Err("RpcError")
  /\ pc' = "convert_done"
  /\ UNCHANGED << overflow_checks, rpc_log, amount, mint, mint_account,
                  mint_data, token_price, sol_price, oracle >>
  /\ UNCHANGED estimVars

\* oracle.get_token_price("SOL").await succeeded
SolPriceOk ==
  /\ pc = "sol_price"
  /\ \E p \in SolPrices : sol_price' = p
  /\ oracle_log' = Append(oracle_log, OracleCall("SOL", "Ok"))
  /\ pc' = "convert"
  /\ UNCHANGED << overflow_checks, rpc_log, result, amount, mint, mint_account,
                  mint_data, token_price, oracle >>
  /\ UNCHANGED estimVars

\* oracle.get_token_price("SOL").await failed: map_err(RpcError)?
SolPriceErr ==
  /\ pc = "sol_price"
  /\ oracle_log' = Append(oracle_log, OracleCall("SOL", "Err"))
  /\ result' = Err("RpcError")
  /\ pc' = "convert_done"
  /\ UNCHANGED << overflow_checks, rpc_log, amount, mint, mint_account,
                  mint_data, token_price, sol_price, oracle >>
  /\ UNCHANGED estimVars

\* the conversion and Ok(lamports)
ConvertResult(amt, decimals, tokenPrice, solPrice) ==
  Ok(Lamports(amt, decimals, tokenPrice, solPrice))

Convert ==
  /\ pc = "convert"
  /\ result' = ConvertResult(amount, mint_data.decimals, token_price, sol_price)
  /\ pc' = "convert_done"
  /\ UNCHANGED << overflow_checks, rpc_log >>
  /\ UNCHANGED convVars
  /\ UNCHANGED estimVars

ConvertNext ==
  \/ CallConvert \/ MintFetchOk \/ MintFetchErr \/ UnpackMint
  \/ TokenPriceOk \/ TokenPriceErr \/ SolPriceOk \/ SolPriceErr \/ Convert

EstimateNext ==
  \/ CallEstimate \/ BaseFeeOk \/ BaseFeeErr
  \/ ScanNext \/ ScanProgramId \/ ScanOperands \/ ScanLookup \/ ScanRent
  \/ PriorityOk \/ PriorityErr \/ Total

Next == EstimateNext \/ ConvertNext

Spec == Init /\ [][Next]_vars
\* ================================================================ claims
EstimatePcs ==
  {"base_fee", "scan", "program_id", "operands", "lookup", "priority", "total",
   "estimate_done"}
InEstimate == pc \in EstimatePcs
Calls(name) == { i \in DOMAIN rpc_log : rpc_log[i].call = name }
NumLookups == Cardinality(Calls("get_account"))
ExemptMin == minimum_balance(ATA_ACCOUNT_SIZE)
\* the three components as unbounded integers
TrueSum == base_fee + priority_fee + ExemptMin * ata_count
\* the prioritization-fee query has answered with a list
PrioAnswered ==
  /\ pc \in {"total", "estimate_done"}
  /\ rpc_log # <<>>
  /\ rpc_log[Len(rpc_log)] = RpcCall("get_recent_prioritization_fees", "Ok")

\* C1: when estimate_transaction_fee returns a fee and the sum of the three
\* components does not overflow u64, the fee is exactly base_fee +
\* priority_fee + account_creation_fee, and summing the components in any of
\* the six orders gives the same fee.
C1_TotalIsSum ==
  (pc = "estimate_done" /\ result.kind = "Ok"
     /\ ~Overflows(base_fee + priority_fee + account_creation_fee))
  => /\ result.value = base_fee + priority_fee + account_creation_fee
     /\ \A t \in { << base_fee, priority_fee, account_creation_fee >>,
                   << base_fee, account_creation_fee, priority_fee >>,
                   << priority_fee, base_fee, account_creation_fee >>,
                   << priority_fee, account_creation_fee, base_fee >>,
                   << account_creation_fee, base_fee, priority_fee >>,
                   << account_creation_fee, priority_fee, base_fee >> } :
           TotalFee(t[1], t[2], t[3]) = result

C1_Witness ==
  /\ pc = "estimate_done"
  /\ result.kind = "Ok"
  /\ base_fee = 5000
  /\ priority_fee = 7
  /\ account_creation_fee = 2 * ExemptMin
  /\ result.value = 5007 + 2 * ExemptMin

\* C2: the returned total never wraps modulo 2^64: when the sum of the three
\* components (or rent minimum * count) exceeds u64::MAX the call ends in an
\* error outcome or returns the saturated value; it neither returns a wrapped
\* fee nor terminates abnormally on the overflow.
C2_NeverWraps ==
  pc = "estimate_done"
  => /\ result.kind = "Ok"
          => result.value = (IF Overflows(TrueSum) THEN U64_MAX ELSE TrueSum)
     /\ ~(result.kind = "Panic" /\ result.error = "overflow")

\* C3: when the prioritization-fee query succeeds, the priority fee is the
\* maximum of the returned fees, and 0 for an empty list; an empty list never
\* makes the call return an error.
C3_PriorityIsMax ==
  PrioAnswered
  => /\ priority_stats = <<>> => (priority_fee = 0 /\ result.kind # "Err")
     /\ priority_stats # <<>>
          => /\ \E i \in DOMAIN priority_stats : priority_stats[i] = priority_fee
             /\ \A i \in DOMAIN priority_stats : priority_stats[i] <= priority_fee

C3_Witness ==
  /\ PrioAnswered
  /\ pc = "estimate_done"
  /\ result.kind = "Ok"
  /\ Len(priority_stats) = 2
  /\ priority_stats[1] > priority_stats[2]
  /\ priority_fee = priority_stats[1]

\* the stated and the derived address of an ATA-program instruction whose
\* operands are valid
StatedAta(ins) == KeyAt(Operand(ins, AtaPos))
DerivedAta(ins) ==
  get_associated_token_address(KeyAt(Operand(ins, OwnerPos)),
                               KeyAt(Operand(ins, MintPos)))

\* C4: an ATA-program instruction whose stated address (operand 1) differs
\* from the address derived from its owner (operand 2) and mint (operand 3)
\* ends its iteration without an existence lookup and without a change of the
\* to-be-created count, whatever the chain would answer.
C4_MismatchNotCounted ==
  [][ (pc = "operands" /\ OperandsValid(instruction)
         /\ StatedAta(instruction) # DerivedAta(instruction))
      => (ata_count' = ata_count /\ rpc_log' = rpc_log /\ pc' = "scan") ]_vars

C4_Witness ==
  /\ pc = "estimate_done"
  /\ result.kind = "Ok"
  /\ ata_mismatches = num_instructions
  /\ num_instructions > 0
  /\ ata_count = 0
  /\ NumLookups = 0

C6_NoAtaNoLookup ==
  (InEstimate /\ ata_targets = 0)
  => (NumLookups = 0 /\ ata_count = 0 /\ account_creation_fee = 0)

C6_Witness ==
  /\ pc = "priority"
  /\ ata_targets = 0
  /\ num_instructions > 1
  /\ next_index = num_instructions
  /\ account_creation_fee = 0
  /\ NumLookups = 0

\* C7: when the oracle returns a price of exactly 0 for the token or for SOL,
\* calculate_token_value_in_lamports ends in an OracleError outcome and never
\* in Ok with a lamport value.
C7_ZeroPriceIsError ==
  (pc = "convert_done"
     /\ oracle_log = << OracleCall("mint", "Ok"), OracleCall("SOL", "Ok") >>
     /\ (token_price = 0 \/ sol_price = 0))
  => (result.kind = "Err" /\ result.error = "OracleError")

\* an instruction the scan cannot index: its program index, or (for an
\* ATA-program instruction) one of the operands it reads, is out of range
Malformed(ins) ==
  \/ ~InRange(ins.program_id_index)
  \/ /\ KeyAt(ins.program_id_index) = AtaProgramId
     /\ ~OperandsValid(ins)

\* C8: a transaction with an out-of-range program or operand index, or an
\* ATA-program instruction with fewer than four operands, makes
\* estimate_transaction_fee return an error, never terminate abnormally.
C8_MalformedIsError ==
  (pc = "estimate_done" /\ instruction # NoInstruction /\ Malformed(instruction))
  => result.kind = "Err"

\* C9: a mint account that was fetched but does not decode gives an
\* InvalidTransaction error, a failed fetch gives an RpcError, and in both
\* cases no oracle lookup is issued.
C9_DecodeVersusFetch ==
  (pc = "convert_done" /\ Len(rpc_log) = 1)
  => /\ (rpc_log[1].outcome = "Ok" /\ MintUnpack(mint_account) # "Ok")
          => (result = Err("InvalidTransaction") /\ oracle_log = <<>>)
     /\ rpc_log[1].outcome # "Ok"
          => (result = Err("RpcError") /\ oracle_log = <<>>)

C9_Witness ==
  /\ pc = "convert_done"
  /\ rpc_log = << RpcCall("get_account", "Ok") >>
  /\ mint_account.len = MINT_LEN
  /\ MintUnpack(mint_account) = "UninitializedAccount"
  /\ result = Err("InvalidTransaction")
  /\ oracle_log = <<>>

\* C10: the lookups are issued in the order base fee, existence lookups,
\* prioritization fees; the base-fee and the prioritization-fee query at most
\* once, an existence lookup at most once per matching instruction; a failed
\* base-fee query ends the call in RpcError with no further lookup, a failed
\* prioritization-fee query ends it in RpcError, and a fee is returned only
\* after both queries succeeded.
C10_LookupOrder ==
  InEstimate
  => /\ \A i \in DOMAIN rpc_log :
          /\ (i = 1) <=> (rpc_log[i].call = "get_fee_for_message")
          /\ rpc_log[i].call = "get_recent_prioritization_fees"
               => (i = Len(rpc_log) /\ pc \in {"total", "estimate_done"})
          /\ rpc_log[i].call \in {"get_fee_for_message", "get_account",
                                   "get_recent_prioritization_fees"}
     /\ NumLookups <= ata_targets - ata_mismatches
     /\ (rpc_log # <<>> /\ rpc_log[1].outcome # "Ok")
          => (Len(rpc_log) = 1 /\ pc = "estimate_done" /\ result = Err("RpcError"))
     /\ (rpc_log # <<>>
           /\ rpc_log[Len(rpc_log)] =
                RpcCall("get_recent_prioritization_fees", "Other"))
          => (pc = "estimate_done" /\ result = Err("RpcError"))
     /\ result.kind = "Ok"
          => /\ rpc_log[1] = RpcCall("get_fee_for_message", "Ok")
             /\ rpc_log[Len(rpc_log)] =
                  RpcCall("get_recent_prioritization_fees", "Ok")

C10_Witness ==
  /\ pc = "estimate_done"
  /\ Len(rpc_log) = 4
  /\ rpc_log[1] = RpcCall("get_fee_for_message", "Ok")
  /\ rpc_log[2].call = "get_account"
  /\ rpc_log[3].call = "get_account"
  /\ rpc_log[4] = RpcCall("get_recent_prioritization_fees", "Other")
  /\ result = Err("RpcError")
====
